---- MODULE Spec2Model ----
(***************************************************************************)
(* State-machine model of the im.darts score keeper (DartsManagerApp).     *)
(* The state is the component's useState cells; every action is one event  *)
(* handler of the component, run to completion (React flushes the queued   *)
(* updaters of a discrete event before the next event is handled).         *)
(*                                                                         *)
(* Conventions.                                                            *)
(*  - players is a sequence; the code's 0-based index i is element i + 1.  *)
(*  - A pointer click is given in polar form: the pixel radius rpx of the  *)
(*    board element, distPx and atanDeg in whole degrees, the values       *)
(*    onBoardClick derives from the event with hypot and atan2.            *)
(*  - Strings of the source that are not ASCII are transliterated.         *)
(*  - An exception thrown inside a state updater is recorded in error; the *)
(*    component is unmounted by React and handles no further event.        *)
(***************************************************************************)
EXTENDS Integers, Sequences, FiniteSets, TLC

VARIABLES startingScore, players, activePlayerIndex, isRunning, nextId,
          showAddPlayer, lastHit, manualSector, manualMult, error

vars == <<startingScore, players, activePlayerIndex, isRunning, nextId,
          showAddPlayer, lastHit, manualSector, manualMult, error>>

(***************************************************************************)
(* Bounds of the model.                                                    *)
(***************************************************************************)
\* addPlayer is enabled while nextId <= MaxId (at most MaxId players ever).
MaxId == 2
\* A pointer or manual hit is enabled while the histories hold fewer than
\* MaxEvents events.
MaxEvents == 1
\* A direct call of recordHit is enabled while the histories hold fewer than
\* MaxCallEvents events.
MaxCallEvents == 2
\* The turn-cycling specification starts with up to MaxTurnPlayers players.
MaxTurnPlayers == 5

\* A value that may be null: NULL, or Some(v).
NULL == <<>>
Some(v) == <<v>>
\* A string | number value, tagged with its typeof.
Str(s) == [str |-> s]
Num(n) == [num |-> n]
IsNumber(v) == DOMAIN v = {"num"}

(***************************************************************************)
(* Board geometry.                                                         *)
(***************************************************************************)
SECTORS == <<20, 1, 18, 4, 13, 6, 10, 15, 2, 17, 3, 19, 7, 16, 8, 11, 14, 9, 12, 5>>

SVG_RADIUS == 50
BOARD_OUTER == 48
DOUBLE_OUTER == 44
DOUBLE_INNER == 38
TRIPLE_OUTER == 28
TRIPLE_INNER == 23
OUTER_BULL_R == 10
INNER_BULL_R == 5

\* The pixel radius of the board element in the application runs; with
\* Rpx = SVG_RADIUS the pixel ring radii Rpx * (R / SVG_RADIUS) are the SVG
\* radii themselves.
Rpx == SVG_RADIUS

(***************************************************************************)
(* Inputs the model draws from.                                            *)
(***************************************************************************)
\* Names typed in the add-player dialog (players may share a name).
Names == {"Ann"}
\* Values the starting-score InputNumber reports (NULL: the field was cleared).
StartingScoreInputs == {NULL, Some(501)}
\* Pointer clicks: distance from the centre and atan2 angle in degrees.
ClickDists == {INNER_BULL_R, TRIPLE_OUTER}
ClickAngles == {-90}
\* Options of the manual sector Select that the model exercises.
ManualSectors == {Str("BULL"), Num(20)}
ManualMults == {1, 3}
\* Arguments of direct calls of recordHit, undoLast and removePlayer.
CallIndices == (-1)..MaxId
CallIds == {ToString(n) : n \in 1..(MaxId + 1)}
CallHits == {[label |-> Str("Bull (50)"), multiplier |-> 1, rawScore |-> 50],
             [label |-> Num(20), multiplier |-> 3, rawScore |-> 60]}

(***************************************************************************)
(* Helpers.                                                                *)
(***************************************************************************)
RECURSIVE SumDelta(_)
SumDelta(h) == IF h = <<>> THEN 0 ELSE Head(h).delta + SumDelta(Tail(h))

RECURSIVE TotalEvents(_)
TotalEvents(ps) ==
  IF ps = <<>> THEN 0 ELSE Len(Head(ps).history) + TotalEvents(Tail(ps))

\* Variant: the predicate is inverted, only the matching player is kept.
RECURSIVE Filter_Inverted(_, _)
Filter_Inverted(ps, id) ==
  IF ps = <<>> THEN <<>>
  ELSE IF Head(ps).id = id THEN <<Head(ps)>> \o Filter_Inverted(Tail(ps), id)
       ELSE Filter_Inverted(Tail(ps), id)

\* prev.filter(p => p.id !== id)
RECURSIVE Filter(_, _)
Filter(ps, id) ==
  IF ps = <<>> THEN <<>>
  ELSE IF Head(ps).id # id THEN <<Head(ps)>> \o Filter(Tail(ps), id)
       ELSE Filter(Tail(ps), id)

ValidIndex(ps, i) == i \in 0..(Len(ps) - 1)

\* typeof label === 'number' ? `${multiplier}x${label}` : `${label}`
Desc(label, multiplier) ==
  IF IsNumber(label) THEN ToString(multiplier) \o "x" \o ToString(label.num)
  ELSE label.str

(***************************************************************************)
(* The state updaters of recordHit and undoLast, as functions of prev.     *)
(***************************************************************************)
\* A TypeError is thrown when copy[playerIndex] is undefined: recordHit
\* spreads pl.history (undefined is not iterable), undoLast reads
\* pl.history[0] (property of undefined).
UpdaterThrows(prev, playerIndex) == ~ValidIndex(prev, playerIndex)

\* Variant: the event is recorded but the score is left as it was.
recordHitUpdater_NoScore(prev, playerIndex, label, multiplier, rawScore) ==
  LET pl == prev[playerIndex + 1]
  IN  [prev EXCEPT ![playerIndex + 1] =
         [pl EXCEPT !.history = <<[desc |-> Desc(label, multiplier),
                                   delta |-> -rawScore]>> \o pl.history]]

\* Variant: the event is appended to the history instead of prepended.
recordHitUpdater_Appends(prev, playerIndex, label, multiplier, rawScore) ==
  LET pl == prev[playerIndex + 1]
  IN  [prev EXCEPT ![playerIndex + 1] =
         [pl EXCEPT !.score = pl.score - rawScore,
                    !.history = Append(pl.history, [desc |-> Desc(label, multiplier),
                                                    delta |-> -rawScore])]]

recordHitUpdater(prev, playerIndex, label, multiplier, rawScore) ==
  LET pl    == prev[playerIndex + 1]
      desc  == Desc(label, multiplier)
      delta == -rawScore
  IN  [prev EXCEPT ![playerIndex + 1] =
         [pl EXCEPT !.score = pl.score + delta,
                    !.history = <<[desc |-> desc, delta |-> delta]>> \o pl.history]]

\* Variant: the delta of the removed event is added instead of subtracted.
undoLastUpdater_AddsDelta(prev, playerIndex) ==
  LET pl == prev[playerIndex + 1]
  IN  IF pl.history = <<>> THEN prev
      ELSE [prev EXCEPT ![playerIndex + 1] =
              [pl EXCEPT !.score = pl.score + Head(pl.history).delta,
                         !.history = Tail(pl.history)]]

\* Variant: the oldest event (the last element) is removed, not the front.
undoLastUpdater_PopsOldest(prev, playerIndex) ==
  LET pl == prev[playerIndex + 1]
      n  == Len(pl.history)
  IN  IF pl.history = <<>> THEN prev
      ELSE [prev EXCEPT ![playerIndex + 1] =
              [pl EXCEPT !.score = pl.score - pl.history[n].delta,
                         !.history = SubSeq(pl.history, 1, n - 1)]]

undoLastUpdater(prev, playerIndex) ==
  LET pl == prev[playerIndex + 1]
  IN  IF pl.history = <<>> THEN prev
      ELSE [prev EXCEPT ![playerIndex + 1] =
              [pl EXCEPT !.score = pl.score - Head(pl.history).delta,
                         !.history = Tail(pl.history)]]

\* recordHit(playerIndex, label, multiplier, rawScore): setPlayers(updater)
recordHit(playerIndex, label, multiplier, rawScore) ==
  IF UpdaterThrows(players, playerIndex)
  THEN /\ players' = players
       /\ error' = TRUE
  ELSE /\ players' = recordHitUpdater(players, playerIndex, label, multiplier, rawScore)
       /\ error' = error

\* undoLast(playerIndex): setPlayers(updater)
undoLast(playerIndex) ==
  IF UpdaterThrows(players, playerIndex)
  THEN /\ players' = players
       /\ error' = TRUE
  ELSE /\ players' = undoLastUpdater(players, playerIndex)
       /\ error' = error

(***************************************************************************)
(* Hit resolution.                                                         *)
(***************************************************************************)
\* Variant: the angle is measured from the right, not from the top.
AngleFromTop_FromRight(atanDeg) == (atanDeg + 360) % 360

\* (atanDeg + 90 + 360) % 360
AngleFromTop(atanDeg) == (atanDeg + 90 + 360) % 360

\* Variant: an exact half is rounded down.
SectorIndex_HalfDown(angleFromTop) == ((2 * angleFromTop + 17) \div 36) % 20

\* Math.round(angleFromTop / 18) % 20; Math.round rounds halves up.
SectorIndex(angleFromTop) == ((2 * angleFromTop + 18) \div 36) % 20

\* Variant: the upper bound of a ring is exclusive.
WithinPx_Strict(rpx, distPx, r) == distPx * SVG_RADIUS < rpx * r

\* Variant: the lower bound of a ring is exclusive.
BeyondPx_Strict(rpx, distPx, r) == distPx * SVG_RADIUS > rpx * r

\* distPx <= Rpx * (r / SVG_RADIUS) and distPx >= Rpx * (r / SVG_RADIUS) for a
\* board of pixel radius rpx, in exact arithmetic.
WithinPx(rpx, distPx, r) == distPx * SVG_RADIUS <= rpx * r
BeyondPx(rpx, distPx, r) == distPx * SVG_RADIUS >= rpx * r

\* distPx / Rpx * SVG_RADIUS; the clicks considered have a whole SVG distance.
DistSvg(rpx, distPx) == (distPx * SVG_RADIUS) \div rpx

\* Variant: the double ring has no outer bound.
Mult_OpenDouble(rpx, distPx) ==
  IF BeyondPx(rpx, distPx, TRIPLE_INNER) /\ WithinPx(rpx, distPx, TRIPLE_OUTER) THEN 3
  ELSE IF BeyondPx(rpx, distPx, DOUBLE_INNER) THEN 2
  ELSE 1

\* let mult = 1; triple band, else double band
Mult(rpx, distPx) ==
  IF BeyondPx(rpx, distPx, TRIPLE_INNER) /\ WithinPx(rpx, distPx, TRIPLE_OUTER) THEN 3
  ELSE IF BeyondPx(rpx, distPx, DOUBLE_INNER) /\ WithinPx(rpx, distPx, DOUBLE_OUTER) THEN 2
  ELSE 1

\* Math.atan2(y, x) * 180 / Math.PI of a click at distance distPx whose
\* direction is deg degrees: atan2(0, 0) is 0.
Atan2Deg(distPx, deg) == IF distPx = 0 THEN 0 ELSE deg

\* makeLastHit; xyAtanDeg stands for the arguments (x, y) by the angle
\* atan2(y, x) in degrees that the function computes from them. atanDeg,
\* angleFromTop and sectorIndex are the optional arguments (NULL: not passed).
\* svgX and svgY, used to draw the marker only, are left out. toFixed(2)
\* leaves the whole degrees considered here as they are.
makeLastHit(distSvg, xyAtanDeg, sectorNumber, mult, rawScore, atanDeg, angleFromTop, sectorIndex) ==
  LET atanDegVal      == IF atanDeg # NULL THEN atanDeg[1] ELSE xyAtanDeg
      angleFromTopVal == IF angleFromTop # NULL THEN angleFromTop[1]
                         ELSE AngleFromTop(atanDegVal)
  IN  [distSvg      |-> distSvg,
       atanDeg      |-> atanDegVal,
       angleFromTop |-> angleFromTopVal,
       sectorIndex  |-> IF sectorIndex # NULL THEN sectorIndex[1]
                        ELSE SectorIndex(angleFromTopVal),
       sectorNumber |-> IF IsNumber(sectorNumber) THEN Some(sectorNumber.num) ELSE NULL,
       mult         |-> mult,
       rawScore     |-> rawScore]

(***************************************************************************)
(* Initial state: the useState initial values.                             *)
(***************************************************************************)
Init ==
  /\ startingScore = 501
  /\ players = <<>>
  /\ activePlayerIndex = 0
  /\ isRunning = FALSE
  /\ nextId = 1
  /\ showAddPlayer = FALSE
  /\ lastHit = NULL
  /\ manualSector = Str("BULL")
  /\ manualMult = 1
  /\ error = FALSE

(***************************************************************************)
(* Event handlers.                                                         *)
(***************************************************************************)
\* "Add player" button: setShowAddPlayer(true)
OpenAddPlayer ==
  /\ error = FALSE
  /\ showAddPlayer' = TRUE
  /\ UNCHANGED <<startingScore, players, activePlayerIndex, isRunning, nextId,
                 lastHit, manualSector, manualMult, error>>

\* Modal onCancel: setShowAddPlayer(false)
CancelAddPlayer ==
  /\ error = FALSE
  /\ showAddPlayer
  /\ showAddPlayer' = FALSE
  /\ UNCHANGED <<startingScore, players, activePlayerIndex, isRunning, nextId,
                 lastHit, manualSector, manualMult, error>>

\* Variant: the id is taken from the length of the list, not from nextId.
NewPlayer_IdFromLength(name) ==
  [id      |-> ToString(Len(players) + 1),
   name    |-> IF name # "" THEN name ELSE "Player: " \o ToString(nextId),
   score   |-> startingScore,
   history |-> <<>>]

\* The player addPlayer(name) builds.
NewPlayer(name) ==
  [id      |-> ToString(nextId),
   name    |-> IF name # "" THEN name ELSE "Player: " \o ToString(nextId),
   score   |-> startingScore,
   history |-> <<>>]

addPlayer(name) ==
  /\ nextId' = nextId + 1
  /\ players' = Append(players, NewPlayer(name))
  /\ showAddPlayer' = FALSE
  /\ UNCHANGED <<startingScore, activePlayerIndex, isRunning, lastHit,
                 manualSector, manualMult, error>>

\* Modal onOk: addPlayer(newPlayerName)
AddPlayer ==
  /\ error = FALSE
  /\ showAddPlayer
  /\ nextId <= MaxId
  /\ \E name \in Names : addPlayer(name)

\* Variant: the scores are reset but the histories are kept.
ResetPlayers_KeepsHistory(ps) ==
  [i \in 1..Len(ps) |-> [ps[i] EXCEPT !.score = startingScore]]

\* The player list resetGame builds.
ResetPlayers(ps) ==
  [i \in 1..Len(ps) |-> [ps[i] EXCEPT !.score = startingScore, !.history = <<>>]]

ResetGame ==
  /\ error = FALSE
  /\ players' = ResetPlayers(players)
  /\ activePlayerIndex' = 0
  /\ isRunning' = FALSE
  /\ lastHit' = NULL
  /\ UNCHANGED <<startingScore, nextId, showAddPlayer, manualSector, manualMult, error>>

\* Variant: the active index is left as it was.
removePlayer_KeepIndex(id) ==
  /\ players' = Filter(players, id)
  /\ UNCHANGED <<startingScore, activePlayerIndex, isRunning, nextId, showAddPlayer,
                 lastHit, manualSector, manualMult, error>>

removePlayer(id) ==
  /\ players' = Filter(players, id)
  /\ activePlayerIndex' = 0
  /\ UNCHANGED <<startingScore, isRunning, nextId, showAddPlayer, lastHit,
                 manualSector, manualMult, error>>

\* Popconfirm onConfirm of a table row: removePlayer(record.id)
RemovePlayer ==
  /\ error = FALSE
  /\ \E index \in 1..Len(players) : removePlayer(players[index].id)

\* Row button: setActivePlayerIndex(index)
SelectActivePlayer ==
  /\ error = FALSE
  /\ \E index \in 0..(Len(players) - 1) : activePlayerIndex' = index
  /\ UNCHANGED <<startingScore, players, isRunning, nextId, showAddPlayer,
                 lastHit, manualSector, manualMult, error>>

\* Row button: undoLast(index)
UndoLast ==
  /\ error = FALSE
  /\ \E index \in 0..(Len(players) - 1) : undoLast(index)
  /\ UNCHANGED <<startingScore, activePlayerIndex, isRunning, nextId,
                 showAddPlayer, lastHit, manualSector, manualMult>>

\* Variant: the index stops at the last player instead of wrapping to 0.
NextTurnIndex_Clamps(i, n) == IF n = 0 THEN 0 ELSE IF i + 1 >= n THEN n - 1 ELSE i + 1

NextTurnIndex(i, n) == IF n = 0 THEN 0 ELSE (i + 1) % n

\* Variant: the turn only advances while the game is running.
NextTurn_Gated ==
  /\ error = FALSE
  /\ isRunning
  /\ activePlayerIndex' = NextTurnIndex(activePlayerIndex, Len(players))
  /\ UNCHANGED <<startingScore, players, isRunning, nextId, showAddPlayer,
                 lastHit, manualSector, manualMult, error>>

NextTurn ==
  /\ error = FALSE
  /\ activePlayerIndex' = NextTurnIndex(activePlayerIndex, Len(players))
  /\ UNCHANGED <<startingScore, players, isRunning, nextId, showAddPlayer,
                 lastHit, manualSector, manualMult, error>>

\* InputNumber onChange: setStartingScore(Number(v || 0))
NumberOrZero(v) == IF v = NULL THEN 0 ELSE v[1]

\* Variant: the scores of the existing players follow the new value.
SetStartingScore_Rebases ==
  /\ error = FALSE
  /\ \E v \in StartingScoreInputs :
       /\ startingScore' = NumberOrZero(v)
       /\ players' = [i \in 1..Len(players) |->
                        [players[i] EXCEPT !.score = @ + NumberOrZero(v) - startingScore]]
  /\ UNCHANGED <<activePlayerIndex, isRunning, nextId, showAddPlayer,
                 lastHit, manualSector, manualMult, error>>

SetStartingScore ==
  /\ error = FALSE
  /\ \E v \in StartingScoreInputs : startingScore' = NumberOrZero(v)
  /\ UNCHANGED <<players, activePlayerIndex, isRunning, nextId, showAddPlayer,
                 lastHit, manualSector, manualMult, error>>

\* Start/pause button: setIsRunning(r => !r)
ToggleRunning ==
  /\ error = FALSE
  /\ isRunning' = ~isRunning
  /\ UNCHANGED <<startingScore, players, activePlayerIndex, nextId,
                 showAddPlayer, lastHit, manualSector, manualMult, error>>

\* Select onChange: setManualSector(v)
setManualSector(v) ==
  /\ error = FALSE
  /\ manualSector' = v
  /\ UNCHANGED <<startingScore, players, activePlayerIndex, isRunning, nextId,
                 showAddPlayer, lastHit, manualMult, error>>

SetManualSector == \E v \in ManualSectors : setManualSector(v)

\* Select onChange: setManualMult(Number(v))
setManualMult(v) ==
  /\ error = FALSE
  /\ manualMult' = v
  /\ UNCHANGED <<startingScore, players, activePlayerIndex, isRunning, nextId,
                 showAddPlayer, lastHit, manualSector, error>>

SetManualMult == \E v \in ManualMults : setManualMult(v)

\* rpx is the pixel radius of the board element, deg the direction of the
\* click, distPx its distance from the centre.
onBoardClick(rpx, distPx, deg) ==
  /\ players # <<>>
  /\ LET distSvg      == DistSvg(rpx, distPx)
         atanDeg      == Atan2Deg(distPx, deg)
         angleFromTop == AngleFromTop(atanDeg)
         sectorIndex  == SectorIndex(angleFromTop)
         sectorNumber == SECTORS[sectorIndex + 1]
         mult         == Mult(rpx, distPx)
         rawScore     == sectorNumber * mult
     IN  IF WithinPx(rpx, distPx, INNER_BULL_R)
         THEN /\ recordHit(activePlayerIndex, Str("Bull (50)"), 1, 50)
              /\ lastHit' = Some(makeLastHit(distSvg, atanDeg, Num(50), 1, 50,
                                             NULL, NULL, NULL))
         ELSE IF WithinPx(rpx, distPx, OUTER_BULL_R)
         THEN /\ recordHit(activePlayerIndex, Str("Outer bull (25)"), 1, 25)
              /\ lastHit' = Some(makeLastHit(distSvg, atanDeg, Num(25), 1, 25,
                                             NULL, NULL, NULL))
         ELSE /\ recordHit(activePlayerIndex, Num(sectorNumber), mult, rawScore)
              /\ lastHit' = Some(makeLastHit(distSvg, atanDeg, Num(sectorNumber), mult,
                                             rawScore, Some(atanDeg), Some(angleFromTop),
                                             Some(sectorIndex)))
  /\ UNCHANGED <<startingScore, activePlayerIndex, isRunning, nextId,
                 showAddPlayer, manualSector, manualMult>>

OnBoardClick ==
  /\ error = FALSE
  /\ TotalEvents(players) < MaxEvents
  /\ \E distPx \in ClickDists, deg \in ClickAngles : onBoardClick(Rpx, distPx, deg)

\* The manual path passes (x, y) = (0, -distSvg): atan2 gives -90 degrees.
ManualAtanDeg == 0 - 90

\* Variant: no guard on the empty player list.
applyManualHit_Unguarded ==
  /\ IF manualSector = Str("BULL")
     THEN /\ recordHit(activePlayerIndex, Str("Bull (50)"), 1, 50)
          /\ lastHit' = Some(makeLastHit(INNER_BULL_R, ManualAtanDeg, Num(50), 1, 50,
                                         NULL, NULL, NULL))
     ELSE IF manualSector = Str("OB")
     THEN /\ recordHit(activePlayerIndex, Str("Outer bull (25)"), 1, 25)
          /\ lastHit' = Some(makeLastHit(OUTER_BULL_R, ManualAtanDeg, Num(25), 1, 25,
                                         NULL, NULL, NULL))
     ELSE LET sectorNumber == manualSector.num
              raw          == sectorNumber * manualMult
          IN  /\ recordHit(activePlayerIndex, Num(sectorNumber), manualMult, raw)
              /\ lastHit' = Some(makeLastHit(TRIPLE_OUTER, ManualAtanDeg,
                                             Num(sectorNumber), manualMult, raw,
                                             NULL, NULL, NULL))
  /\ UNCHANGED <<startingScore, activePlayerIndex, isRunning, nextId,
                 showAddPlayer, manualSector, manualMult>>

\* Variant: the selected multiplier also applies to the bulls.
applyManualHit_MultOnBull ==
  /\ players # <<>>
  /\ LET bull == IF manualSector = Str("BULL") THEN 50
                 ELSE IF manualSector = Str("OB") THEN 25 ELSE 0
         sectorNumber == IF bull # 0 THEN bull ELSE manualSector.num
         raw          == sectorNumber * manualMult
         label        == IF bull # 0 THEN manualSector ELSE Num(sectorNumber)
     IN  /\ recordHit(activePlayerIndex, label, manualMult, raw)
         /\ lastHit' = Some(makeLastHit(TRIPLE_OUTER, ManualAtanDeg,
                                        Num(sectorNumber), manualMult, raw,
                                        NULL, NULL, NULL))
  /\ UNCHANGED <<startingScore, activePlayerIndex, isRunning, nextId,
                 showAddPlayer, manualSector, manualMult>>

applyManualHit ==
  /\ players # <<>>
  /\ IF manualSector = Str("BULL")
     THEN /\ recordHit(activePlayerIndex, Str("Bull (50)"), 1, 50)
          /\ lastHit' = Some(makeLastHit(INNER_BULL_R, ManualAtanDeg, Num(50), 1, 50,
                                         NULL, NULL, NULL))
     ELSE IF manualSector = Str("OB")
     THEN /\ recordHit(activePlayerIndex, Str("Outer bull (25)"), 1, 25)
          /\ lastHit' = Some(makeLastHit(OUTER_BULL_R, ManualAtanDeg, Num(25), 1, 25,
                                         NULL, NULL, NULL))
     ELSE LET sectorNumber == manualSector.num
              raw          == sectorNumber * manualMult
          IN  /\ recordHit(activePlayerIndex, Num(sectorNumber), manualMult, raw)
              /\ lastHit' = Some(makeLastHit(TRIPLE_OUTER, ManualAtanDeg,
                                             Num(sectorNumber), manualMult, raw,
                                             NULL, NULL, NULL))
  /\ UNCHANGED <<startingScore, activePlayerIndex, isRunning, nextId,
                 showAddPlayer, manualSector, manualMult>>

ApplyManualHit ==
  /\ error = FALSE
  /\ TotalEvents(players) < MaxEvents
  /\ applyManualHit

(***************************************************************************)
(* The application: the handlers the rendered component wires up.          *)
(***************************************************************************)
Next ==
  \/ OpenAddPlayer
  \/ CancelAddPlayer
  \/ AddPlayer
  \/ ResetGame
  \/ RemovePlayer
  \/ SelectActivePlayer
  \/ UndoLast
  \/ NextTurn
  \/ SetStartingScore
  \/ ToggleRunning
  \/ SetManualSector
  \/ SetManualMult
  \/ OnBoardClick
  \/ ApplyManualHit

Spec == Init /\ [][Next]_vars

(***************************************************************************)
(* The functions of the component called directly, with any argument.      *)
(***************************************************************************)
RecordHitCall ==
  /\ error = FALSE
  /\ TotalEvents(players) < MaxCallEvents
  /\ \E i \in CallIndices, h \in CallHits :
       recordHit(i, h.label, h.multiplier, h.rawScore)
  /\ UNCHANGED <<startingScore, activePlayerIndex, isRunning, nextId,
                 showAddPlayer, lastHit, manualSector, manualMult>>

UndoLastCall ==
  /\ error = FALSE
  /\ \E i \in CallIndices : undoLast(i)
  /\ UNCHANGED <<startingScore, activePlayerIndex, isRunning, nextId,
                 showAddPlayer, lastHit, manualSector, manualMult>>

RemovePlayerCall ==
  /\ error = FALSE
  /\ \E id \in CallIds : removePlayer(id)

NextApi ==
  \/ RecordHitCall
  \/ UndoLastCall
  \/ RemovePlayerCall
  \/ OpenAddPlayer
  \/ AddPlayer
  \/ ResetGame
  \/ SelectActivePlayer
  \/ NextTurn
  \/ SetStartingScore
  \/ ToggleRunning

SpecApi == Init /\ [][NextApi]_vars

(***************************************************************************)
(* Turn rotation with more players: the state after k calls of             *)
(* addPlayer("Ann"), then the handlers that leave the player list alone.   *)
(***************************************************************************)
FreshPlayers(k) ==
  [j \in 1..k |-> [id |-> ToString(j), name |-> "Ann", score |-> 501, history |-> <<>>]]

InitTurns ==
  /\ startingScore = 501
  /\ \E k \in 0..MaxTurnPlayers : players = FreshPlayers(k) /\ nextId = k + 1
  /\ activePlayerIndex = 0
  /\ isRunning = FALSE
  /\ showAddPlayer = FALSE
  /\ lastHit = NULL
  /\ manualSector = Str("BULL")
  /\ manualMult = 1
  /\ error = FALSE

NextTurns ==
  \/ NextTurn
  \/ SelectActivePlayer
  \/ ToggleRunning
  \/ SetStartingScore
  \/ OpenAddPlayer
  \/ CancelAddPlayer

SpecTurns == InitTurns /\ [][NextTurns]_vars

(***************************************************************************)
(* The board alone: pointer clicks at every ring boundary and around every *)
(* sector boundary, on boards of two pixel sizes, with zero or one player. *)
(* Every distance is tried in a few directions and every direction at a    *)
(* few distances.                                                          *)
(***************************************************************************)
\* Pixel radii of the board element (rect.width / 2).
BoardRadii == {SVG_RADIUS, 2 * SVG_RADIUS}

\* Distances from the centre in SVG units: each ring radius, the next whole
\* unit on either side of it, and one beyond the drawn board edge.
BoardDists ==
  {0, INNER_BULL_R - 1, INNER_BULL_R, INNER_BULL_R + 1,
   OUTER_BULL_R, OUTER_BULL_R + 1,
   TRIPLE_INNER - 1, TRIPLE_INNER, TRIPLE_OUTER, TRIPLE_OUTER + 1,
   DOUBLE_INNER - 1, DOUBLE_INNER, DOUBLE_OUTER, DOUBLE_OUTER + 1,
   BOARD_OUTER, BOARD_OUTER + 1, SVG_RADIUS + 10}

\* Directions atan2(y, x) in degrees: every sector centre and sector
\* boundary (the multiples of 9) and the degree on either side of it.
BoardAngles == {a \in (-180)..180 : a % 9 \in {0, 1, 8}}

\* The directions every distance is tried in, and the distances every
\* direction is tried at: both bulls, a single, a triple, a double and a
\* point beyond the board edge.
SweepAngles == {0 - 90, 0, 81}
SweepDists ==
  {INNER_BULL_R, OUTER_BULL_R, OUTER_BULL_R + 1, TRIPLE_INNER, DOUBLE_OUTER,
   SVG_RADIUS + 10}
BoardClicks ==
  {c \in BoardDists \X BoardAngles : c[1] \in SweepDists \/ c[2] \in SweepAngles}

InitBoard ==
  /\ startingScore = 501
  /\ \E k \in 0..1 : players = FreshPlayers(k) /\ nextId = k + 1
  /\ activePlayerIndex = 0
  /\ isRunning = FALSE
  /\ showAddPlayer = FALSE
  /\ lastHit = NULL
  /\ manualSector = Str("BULL")
  /\ manualMult = 1
  /\ error = FALSE

BoardClick ==
  /\ error = FALSE
  /\ TotalEvents(players) < MaxEvents
  /\ \E rpx \in BoardRadii, c \in BoardClicks :
       onBoardClick(rpx, c[1] * (rpx \div SVG_RADIUS), c[2])

NextBoard ==
  \/ BoardClick
  \/ ResetGame

SpecBoard == InitBoard /\ [][NextBoard]_vars

(***************************************************************************)
(* The manual entry alone: every option of the two selects, with zero or   *)
(* one player.                                                             *)
(***************************************************************************)
\* The options of the sector select: BULL, OB and SECTORS.
ManualSectorOptions ==
  {Str("BULL"), Str("OB")} \cup {Num(SECTORS[k]) : k \in 1..Len(SECTORS)}

\* The options of the multiplier select.
ManualMultOptions == {1, 2, 3}

SelectManualSector == \E v \in ManualSectorOptions : setManualSector(v)

SelectManualMult == \E v \in ManualMultOptions : setManualMult(v)

NextManual ==
  \/ SelectManualSector
  \/ SelectManualMult
  \/ ApplyManualHit
  \/ UndoLast
  \/ ResetGame

SpecManual == InitBoard /\ [][NextManual]_vars

(***************************************************************************)
(* Both hit paths together: the manual entry with every option, and the    *)
(* pointer clicks of the application runs.                                 *)
(***************************************************************************)
NextHits ==
  \/ OnBoardClick
  \/ SelectManualSector
  \/ SelectManualMult
  \/ ApplyManualHit
  \/ ResetGame

SpecHits == InitBoard /\ [][NextHits]_vars

(***************************************************************************)
(* Properties.                                                             *)
(***************************************************************************)
PlayerIds(ps) == {ps[j].id : j \in 1..Len(ps)}

\* score minus the deltas of the history: the score the player started from.
BaseScore(p) == p.score - SumDelta(p.history)

\* C1 as stated: in every reachable state every player has
\* score = startingScore + sum of the deltas of its history, with the
\* current value of startingScore.
C1_ScoreMatchesCurrentStart ==
  \A j \in 1..Len(players) :
    players[j].score = startingScore + SumDelta(players[j].history)

\* C1 amended: score - sum of deltas is the startingScore in force when the
\* player was added or last reset. Every step gives a player that is new or
\* that resetGame has reset a base equal to startingScore, and leaves the
\* base of every other player as it was (setStartingScore included).
C1_ScoreMatchesStartAtAddOrReset ==
  [][\A j \in 1..Len(players') :
       LET p2 == players'[j]
       IN  IF ResetGame \/ p2.id \notin PlayerIds(players)
           THEN BaseScore(p2) = startingScore
           ELSE \E i \in 1..Len(players) :
                  /\ players[i].id = p2.id
                  /\ BaseScore(p2) = BaseScore(players[i])]_vars

\* A player with a recorded throw whose base is 501 while startingScore is 0.
C1_Witness ==
  \E j \in 1..Len(players) :
    /\ players[j].history # <<>>
    /\ BaseScore(players[j]) = 501
    /\ startingScore = 0

\* Hits used to state properties of recordHit on every reachable state.
SampleHits == CallHits \cup {[label |-> Str("Outer bull (25)"), multiplier |-> 1, rawScore |-> 25],
                             [label |-> Num(5), multiplier |-> 2, rawScore |-> 10]}

\* C2: for every reachable state, valid index i and hit h, recordHit(i, h)
\* followed by undoLast(i) gives back the player list as it was: the score
\* and history of player i and every other player.
C2_UndoInvertsRecord ==
  \A i \in 0..(Len(players) - 1) : \A h \in SampleHits :
    LET recorded == recordHitUpdater(players, i, h.label, h.multiplier, h.rawScore)
    IN  /\ recorded # players
        /\ undoLastUpdater(recorded, i) = players

\* Two players, one of them with two recorded throws.
C2_Witness ==
  /\ Len(players) = 2
  /\ \E j \in 1..2 : Len(players[j].history) = 2

\* C3: activePlayerIndex is in [0, playerCount) when there are players and
\* is 0 when the list is empty.
C3_ActiveIndexInRange ==
  IF Len(players) > 0 THEN activePlayerIndex \in 0..(Len(players) - 1)
  ELSE activePlayerIndex = 0

\* The last of two players is active.
C3_Witness == Len(players) = 2 /\ activePlayerIndex = 1

\* A direct call of recordHit or undoLast with an index outside the list.
OutOfRangeCall ==
  \E i \in CallIndices :
    /\ ~ValidIndex(players, i)
    /\ \/ \E h \in CallHits : recordHit(i, h.label, h.multiplier, h.rawScore)
       \/ undoLast(i)

\* C4: recordHit or undoLast called with an index outside [0, playerCount)
\* changes no state field and raises no error.
C4_OutOfRangeIsNoOp ==
  [][OutOfRangeCall => (error' = FALSE /\ UNCHANGED vars)]_vars

\* A direct call of removePlayer with an id no current player has.
UnknownIdRemoval ==
  \E id \in CallIds : id \notin PlayerIds(players) /\ removePlayer(id)

\* C5: removePlayer(id) with an id that matches no player leaves the whole
\* state unchanged, activePlayerIndex included.
C5_UnknownIdIsNoOp ==
  [][UnknownIdRemoval => UNCHANGED vars]_vars

\* ps without its element at position k.
WithoutAt(ps, k) == [j \in 1..(Len(ps) - 1) |-> IF j < k THEN ps[j] ELSE ps[j + 1]]

C7_RecordHitChangesOnePlayer ==
  [][\A i \in 0..(Len(players) - 1) : \A h \in CallHits :
       recordHit(i, h.label, h.multiplier, h.rawScore) =>
         /\ Len(players') = Len(players)
         /\ players'[i + 1].score = players[i + 1].score - h.rawScore
         /\ players'[i + 1].history =
              <<[desc |-> Desc(h.label, h.multiplier), delta |-> -h.rawScore]>>
                \o players[i + 1].history
         /\ players'[i + 1].id = players[i + 1].id
         /\ players'[i + 1].name = players[i + 1].name
         /\ \A k \in 1..Len(players) : k # i + 1 => players'[k] = players[k]
         /\ UNCHANGED <<activePlayerIndex, startingScore, isRunning, nextId, error>>]_vars

\* Two throws were recorded on the second player while the first one, who
\* has none, is the active player.
C7_Witness ==
  /\ Len(players) = 2
  /\ activePlayerIndex = 0
  /\ Len(players[2].history) = 2
  /\ players[1].history = <<>>

\* The ids of the current players are pairwise different and were all
\* handed out by the counter already.
IdsUniqueAndIssued ==
  /\ \A i, j \in 1..Len(players) : i # j => players[i].id # players[j].id
  /\ \A j \in 1..Len(players) : \E n \in 1..(nextId - 1) : players[j].id = ToString(n)

\* C8: ids are unique among the current players and never reused: all
\* current ids were issued below nextId, nextId never decreases (resetGame
\* and removePlayer leave it alone), and a player that enters the list gets
\* the id String(nextId) while the counter moves on.
C8_IdsUniqueNeverReused ==
  [][/\ IdsUniqueAndIssued
     /\ IdsUniqueAndIssued'
     /\ nextId' >= nextId
     /\ \A j \in 1..Len(players') :
          players'[j].id \notin PlayerIds(players) =>
            (players'[j].id = ToString(nextId) /\ nextId' = nextId + 1)]_vars

\* Two ids have been issued and player 1 was removed: the list holds only
\* id 2.
C8_Witness ==
  /\ nextId = 3
  /\ Len(players) = 1
  /\ players[1].id = "2"

\* C9: resetGame sets every score to the current startingScore, empties
\* every history, sets activePlayerIndex to 0 and running to false, and
\* keeps the players: same number, ids, names and order.
C9_ResetGame ==
  [][ResetGame =>
       /\ Len(players') = Len(players)
       /\ \A j \in 1..Len(players) :
            /\ players'[j].id = players[j].id
            /\ players'[j].name = players[j].name
            /\ players'[j].score = startingScore
            /\ players'[j].history = <<>>
       /\ activePlayerIndex' = 0
       /\ isRunning' = FALSE
       /\ startingScore' = startingScore]_vars

\* The state resetGame leaves with two players and a starting score of 0.
C9_Witness ==
  /\ Len(players) = 2
  /\ startingScore = 0
  /\ \A j \in 1..2 : players[j].score = 0 /\ players[j].history = <<>>
  /\ activePlayerIndex = 0
  /\ isRunning = FALSE
  /\ lastHit = NULL

\* C10: a step that changes startingScore changes nothing else: players
\* (scores and histories), activePlayerIndex, running and nextId. The value
\* is used by addPlayer: a player that enters the list has the current
\* startingScore as its score.
C10_SetStartingScoreOnlyConfig ==
  [][/\ startingScore' # startingScore =>
          UNCHANGED <<players, activePlayerIndex, isRunning, nextId, showAddPlayer,
                      lastHit, manualSector, manualMult, error>>
     /\ \A j \in 1..Len(players') :
          players'[j].id \notin PlayerIds(players) =>
            players'[j].score = startingScore]_vars

\* startingScore was changed to 0 while a player keeps 441 = 501 - 60.
C10_Witness ==
  /\ startingScore = 0
  /\ \E j \in 1..Len(players) :
       players[j].score = 441 /\ Len(players[j].history) = 1

\* A stack of events, top at index 1.
StackPush(st, e) == <<e>> \o st
StackPop(st) == IF st = <<>> THEN st ELSE SubSeq(st, 2, Len(st))
StackTopDelta(st) == IF st = <<>> THEN 0 ELSE st[1].delta

\* Two players at 501; two triple 20s recorded on player 0, then one undo:
\* player 0 has 441 and one event, player 1 is as it was.
Scenario3 ==
  LET p0 == <<[id |-> "1", name |-> "Ann", score |-> 501, history |-> <<>>],
              [id |-> "2", name |-> "Ann", score |-> 501, history |-> <<>>]>>
      p1 == recordHitUpdater(p0, 0, Num(20), 3, 60)
      p2 == recordHitUpdater(p1, 0, Num(20), 3, 60)
      p3 == undoLastUpdater(p2, 0)
  IN  /\ p3[1].score = 441
      /\ Len(p3[1].history) = 1
      /\ p3[2] = p0[2]

\* C11: the history of a player is a stack driven by the calls: every
\* recordHit(i, h) step pushes the event of h on top (index 0) of player
\* i's history and subtracts rawScore, every undoLast(i) step pops the top
\* and takes its delta back (an empty stack stays empty, the score too), so
\* the history lists the throws not yet undone, most recent first.
C11_HistoryIsStack ==
  [][\A i \in 0..(Len(players) - 1) :
       LET st == players[i + 1].history
       IN  /\ \A h \in CallHits :
                recordHit(i, h.label, h.multiplier, h.rawScore) =>
                  /\ players'[i + 1].history =
                       StackPush(st, [desc |-> Desc(h.label, h.multiplier),
                                      delta |-> -h.rawScore])
                  /\ players'[i + 1].score = players[i + 1].score - h.rawScore
           /\ undoLast(i) =>
                /\ players'[i + 1].history = StackPop(st)
                /\ players'[i + 1].score = players[i + 1].score - StackTopDelta(st)
     /\ Scenario3]_vars

\* From 501, a triple 20 and then a bull were recorded on one player: the
\* bull is on top, 391 is left.
C11_Witness ==
  \E j \in 1..Len(players) :
    /\ players[j].score = 391
    /\ Len(players[j].history) = 2
    /\ players[j].history[1].delta = -50
    /\ players[j].history[2].delta = -60

\* nextTurn applied times times to index i with n players.
RECURSIVE NextTurnTimes(_, _, _)
NextTurnTimes(i, n, times) ==
  IF times = 0 THEN i ELSE NextTurnTimes(NextTurnIndex(i, n), n, times - 1)

\* C12: every nextTurn step sets activePlayerIndex to
\* (activePlayerIndex + 1) mod playerCount, and from every reachable state
\* with playerCount >= 1, playerCount applications of nextTurn bring
\* activePlayerIndex back to its value, passing through every other index
\* only before that.
C12_TurnCycle ==
  [][/\ (NextTurn /\ Len(players) >= 1) =>
          activePlayerIndex' = (activePlayerIndex + 1) % Len(players)
     /\ Len(players) >= 1 =>
          /\ NextTurnTimes(activePlayerIndex, Len(players), Len(players)) = activePlayerIndex
          /\ \A t \in 1..(Len(players) - 1) :
               NextTurnTimes(activePlayerIndex, Len(players), t) # activePlayerIndex]_vars

\* The last of MaxTurnPlayers players is active: the next turn wraps to 0.
C12_Witness ==
  /\ Len(players) = MaxTurnPlayers
  /\ activePlayerIndex = MaxTurnPlayers - 1

\* What the pointer hit, the manual hit, undoLast and nextTurn can do in the
\* current state: the sampled hits each handler can record on the active
\* player, the rows undoLast can act on, and whether nextTurn moves the turn
\* to the next index.
Outcomes ==
  <<{h \in SampleHits :
       ENABLED (/\ OnBoardClick
                /\ players' = recordHitUpdater(players, activePlayerIndex, h.label,
                                               h.multiplier, h.rawScore)
                /\ activePlayerIndex' = activePlayerIndex)},
    {h \in SampleHits :
       ENABLED (/\ ApplyManualHit
                /\ players' = recordHitUpdater(players, activePlayerIndex, h.label,
                                               h.multiplier, h.rawScore)
                /\ activePlayerIndex' = activePlayerIndex)},
    {i \in 0..(Len(players) - 1) :
       ENABLED (/\ UndoLast
                /\ players' = undoLastUpdater(players, i)
                /\ activePlayerIndex' = activePlayerIndex)},
    ENABLED (/\ NextTurn
             /\ players' = players
             /\ activePlayerIndex' = NextTurnIndex(activePlayerIndex, Len(players)))>>

\* A step that changes the running flag and nothing else.
RunningFlips ==
  /\ isRunning' # isRunning
  /\ UNCHANGED <<startingScore, players, activePlayerIndex, nextId, showAddPlayer,
                 lastHit, manualSector, manualMult, error>>

\* C13: the running flag gates nothing: two states that differ only in
\* running offer the same pointer hits, manual hits, undos and turn change
\* with the same resulting players and activePlayerIndex, and in the one
\* where running is false a pointer hit and a turn change are possible
\* whenever there is a player; the flag itself changes only by the
\* start/pause button and resetGame.
C13_RunningGatesNothing ==
  [][/\ RunningFlips =>
          /\ Outcomes' = Outcomes
          /\ (players # <<>> /\ TotalEvents(players) < MaxEvents)
               => Outcomes[1] # {} /\ Outcomes[4]
     /\ isRunning' # isRunning => (RunningFlips \/ ResetGame)]_vars

\* A throw recorded while the game has never been started or is paused.
C13_Witness ==
  /\ ~isRunning
  /\ lastHit # NULL
  /\ \E j \in 1..Len(players) : players[j].history # <<>>

\* The most recent Hit is a bull: both paths store a bull with a distance
\* inside the outer bull radius, and every other hit farther out.
LastHitIsBull == lastHit # NULL /\ lastHit[1].distSvg <= OUTER_BULL_R

\* C14: every bull hit, inner or outer, pointer or manual, is stored with
\* sectorNumber absent (null) and multiplier 1, so the sectorNumber of the
\* most recent Hit is always absent or in 1..20.
C14_BullHasNoSector ==
  lastHit # NULL =>
    /\ LastHitIsBull => (lastHit[1].sectorNumber = NULL /\ lastHit[1].mult = 1)
    /\ lastHit[1].sectorNumber = NULL \/ lastHit[1].sectorNumber[1] \in 1..20

\* The event on top of the history of the active player.
TopEvent == players[activePlayerIndex + 1].history[1]

\* C15: in the pointer path a click whose normalized distance is at most 5
\* records rawScore 50 and one with 5 < distance <= 10 records rawScore 25,
\* whatever its direction and the pixel size of the board: the throw is the
\* bull's, with multiplier 1, and no sector or ring enters its score.
C15_BullPrecedence ==
  lastHit # NULL =>
    /\ lastHit[1].distSvg <= INNER_BULL_R =>
         /\ lastHit[1].rawScore = 50 /\ lastHit[1].mult = 1
         /\ TopEvent = [desc |-> Desc(Str("Bull (50)"), 1), delta |-> 0 - 50]
    /\ (lastHit[1].distSvg > INNER_BULL_R /\ lastHit[1].distSvg <= OUTER_BULL_R) =>
         /\ lastHit[1].rawScore = 25 /\ lastHit[1].mult = 1
         /\ TopEvent = [desc |-> Desc(Str("Outer bull (25)"), 1), delta |-> 0 - 25]

\* An outer bull clicked 9 degrees short of the horizontal, where a sector
\* boundary lies.
C15_Witness ==
  /\ lastHit # NULL
  /\ lastHit[1].distSvg = OUTER_BULL_R /\ lastHit[1].atanDeg = 81
  /\ lastHit[1].rawScore = 25
  /\ players[1].score = 501 - 25

\* The multiplier of the ring at a normalized distance, bounds inclusive.
RingMult(d) ==
  IF TRIPLE_INNER <= d /\ d <= TRIPLE_OUTER THEN 3
  ELSE IF DOUBLE_INNER <= d /\ d <= DOUBLE_OUTER THEN 2
  ELSE 1

\* The sector centre (0..20, at 18 degrees each) nearest to an angle from the
\* top, the clockwise one of two centres equally near.
NearestCentre(a) == CHOOSE k \in 0..20 : 18 * k - 9 <= a /\ a < 18 * k + 9

\* The sector number at an angle from the top.
SectorAt(a) == SECTORS[(NearestCentre(a) % 20) + 1]

\* C16: for every pointer hit that is not a bull the multiplier is that of
\* the ring at its normalized distance (3 for 23..28, 2 for 38..44, else 1,
\* bounds inclusive), the sector is that of its angle, and the throw
\* recorded is rawScore = sectorNumber x multiplier.
C16_RingAndSectorIndependent ==
  (lastHit # NULL /\ lastHit[1].distSvg > OUTER_BULL_R) =>
    /\ lastHit[1].mult = RingMult(lastHit[1].distSvg)
    /\ lastHit[1].sectorNumber = Some(SectorAt(lastHit[1].angleFromTop))
    /\ lastHit[1].rawScore = lastHit[1].sectorNumber[1] * lastHit[1].mult
    /\ TopEvent = [desc  |-> Desc(Num(lastHit[1].sectorNumber[1]), lastHit[1].mult),
                   delta |-> 0 - lastHit[1].rawScore]

\* Sector 1 at the inner edge of the triple ring.
C16_Witness ==
  /\ lastHit # NULL
  /\ lastHit[1].distSvg = TRIPLE_INNER /\ lastHit[1].angleFromTop = 18
  /\ lastHit[1].mult = 3 /\ lastHit[1].rawScore = 3
  /\ players[1].score = 501 - 3

\* C17: the angle from the top of every hit is in [0, 360) and its
\* sectorIndex is round(angle / 18) mod 20 with halves rounded up: in 0..19,
\* 0 from 351 degrees on, the next clockwise sector at 9 degrees past a
\* centre; the top of the board is sector 20, and the sectorNumber of a hit
\* that is not a bull is the entry of SECTORS at that index.
C17_NearestCentreRounding ==
  lastHit # NULL =>
    LET a == lastHit[1].angleFromTop
        k == lastHit[1].sectorIndex
    IN  /\ a \in 0..359
        /\ k \in 0..19
        /\ k = NearestCentre(a) % 20
        /\ a >= 351 => k = 0
        /\ a % 18 = 9 => k = ((a + 9) \div 18) % 20
        /\ lastHit[1].distSvg > OUTER_BULL_R =>
             /\ lastHit[1].sectorNumber = Some(SECTORS[k + 1])
             /\ a = 0 => lastHit[1].sectorNumber = Some(20)
        /\ SECTORS = <<20, 1, 18, 4, 13, 6, 10, 15, 2, 17, 3, 19, 7, 16, 8, 11, 14, 9, 12, 5>>

\* A triple at 351 degrees from the top: half-way between the centres of
\* sectors 5 and 20.
C17_Witness ==
  /\ lastHit # NULL
  /\ lastHit[1].distSvg = TRIPLE_INNER /\ lastHit[1].angleFromTop = 351
  /\ lastHit[1].sectorIndex = 0 /\ lastHit[1].rawScore = 60

\* C18: with no player, a pointer hit and a manual hit change nothing (no
\* throw, no new most recent Hit, no error), nextTurn leaves
\* activePlayerIndex at 0, and no error has been raised.
C18_EmptyListIgnoresHitsAndTurns ==
  players = <<>> =>
    /\ ~ENABLED (\E d \in ClickDists, deg \in ClickAngles : onBoardClick(Rpx, d, deg))
    /\ ~ENABLED applyManualHit
    /\ activePlayerIndex = 0
    /\ NextTurnIndex(activePlayerIndex, Len(players)) = 0
    /\ error = FALSE

\* The list is empty again after a hit: the most recent Hit is still shown.
C18_Witness ==
  /\ players = <<>>
  /\ lastHit # NULL
  /\ nextId > 1

\* The rawScore and the multiplier of a manual selection.
ManualRaw(sector, m) ==
  IF sector = Str("BULL") THEN 50
  ELSE IF sector = Str("OB") THEN 25
  ELSE sector.num * m
ManualMultiplier(sector, m) == IF IsNumber(sector) THEN m ELSE 1
ManualLabel(sector) ==
  IF sector = Str("BULL") THEN Str("Bull (50)")
  ELSE IF sector = Str("OB") THEN Str("Outer bull (25)")
  ELSE sector

\* C19: a manual hit records on the active player what the selection says:
\* 50 for BULL and 25 for the outer bull, both with multiplier 1 whatever
\* multiplier is selected, s x m for a sector s with multiplier m; the throw
\* is the one recordHit would record, as for a pointer hit.
C19_ManualRecordsSelection ==
  [][TotalEvents(players') = TotalEvents(players) + 1 =>
       LET raw  == ManualRaw(manualSector, manualMult)
           m    == ManualMultiplier(manualSector, manualMult)
           i    == activePlayerIndex
           top  == players'[i + 1].history[1]
       IN  /\ players'[i + 1].score = players[i + 1].score - raw
           /\ top.delta = 0 - raw
           /\ lastHit'[1].rawScore = raw /\ lastHit'[1].mult = m
           /\ players' = recordHitUpdater(players, i, ManualLabel(manualSector), m, raw)
           /\ \A j \in 1..Len(players) : j # i + 1 => players'[j] = players[j]]_vars

\* An outer bull entered while the multiplier 3 is selected.
C19_Witness ==
  /\ manualSector = Str("OB") /\ manualMult = 3
  /\ lastHit # NULL /\ lastHit[1].rawScore = 25 /\ lastHit[1].mult = 1
  /\ players # <<>> /\ players[1].score = 501 - 25

\* C20: a pointer hit beyond the outer rim (normalized distance > 48) is
\* recorded like any other: multiplier 1, the sector of its angle, rawScore
\* the sector number, one more event in the history of the active player,
\* and no error.
C20_BeyondRimIsRecorded ==
  [][(players' # players /\ lastHit' # NULL /\ lastHit'[1].distSvg > BOARD_OUTER) =>
       LET i == activePlayerIndex
           n == SectorAt(lastHit'[1].angleFromTop)
       IN  /\ lastHit'[1].mult = 1
           /\ lastHit'[1].sectorNumber = Some(n)
           /\ lastHit'[1].rawScore = n
           /\ Len(players'[i + 1].history) = Len(players[i + 1].history) + 1
           /\ players'[i + 1].history[1] = [desc |-> Desc(Num(n), 1), delta |-> 0 - n]
           /\ players'[i + 1].score = players[i + 1].score - n
           /\ error' = FALSE]_vars

\* Ten units beyond the drawn board, to the right: sector 6.
C20_Witness ==
  /\ lastHit # NULL
  /\ lastHit[1].distSvg = SVG_RADIUS + 10 /\ lastHit[1].atanDeg = 0
  /\ lastHit[1].rawScore = 6 /\ lastHit[1].mult = 1
  /\ players[1].score = 501 - 6

\* The diagnostic fields of a Hit agree with its scored fields.
DiagnosticsAgree(h) ==
  /\ h.sectorNumber = Some(SECTORS[h.sectorIndex + 1])
  /\ h.mult = RingMult(h.distSvg)

\* C21 (as claimed): for every non-bull most recent Hit, of the pointer path
\* or the manual path, sectorNumber is the SECTORS entry at sectorIndex and
\* the multiplier is the one of the ring at the stored distance.
C21_DiagnosticsAgreeOnBothPaths ==
  (lastHit # NULL /\ ~LastHitIsBull) => DiagnosticsAgree(lastHit[1])

\* C21 (amended): a non-bull Hit of the pointer path has diagnostic fields
\* that agree with its scored fields. A non-bull Hit of the manual path
\* carries the selected sector and multiplier with fixed diagnostics,
\* distance 28 (the outer edge of the triple ring) at the top of the board,
\* sectorIndex 0, so its diagnostics agree only for sector 20 with
\* multiplier 3.
C21_ManualDiagnosticsArePlaceholders ==
  [][(TotalEvents(players') = TotalEvents(players) + 1 /\ lastHit'[1].distSvg > OUTER_BULL_R) =>
       /\ (\E d \in ClickDists, deg \in ClickAngles : onBoardClick(Rpx, d, deg)) =>
            DiagnosticsAgree(lastHit'[1])
       /\ applyManualHit =>
            /\ lastHit'[1].sectorNumber = Some(manualSector.num)
            /\ lastHit'[1].mult = manualMult
            /\ lastHit'[1].rawScore = manualSector.num * manualMult
            /\ lastHit'[1].distSvg = TRIPLE_OUTER
            /\ lastHit'[1].angleFromTop = 0
            /\ lastHit'[1].sectorIndex = 0
            /\ DiagnosticsAgree(lastHit'[1]) <=> (manualSector = Num(20) /\ manualMult = 3)]_vars

\* A manual double 5: stored in the triple ring at the top, where sector 20
\* lies.
C21_Witness ==
  /\ lastHit # NULL
  /\ lastHit[1].sectorNumber = Some(5) /\ lastHit[1].mult = 2
  /\ lastHit[1].rawScore = 10
  /\ lastHit[1].distSvg = TRIPLE_OUTER /\ lastHit[1].sectorIndex = 0
  /\ players # <<>> /\ players[1].score = 501 - 10

====
